---- MODULE Spec2Model ----
(***************************************************************************)
(* Model of the realtime relay session (node-express/src/session.ts) and   *)
(* of the dataset store it consults (node-express/src/json-data-service.ts)*)
(*                                                                         *)
(* A JavaScript string is a sequence of one-character strings.  An async   *)
(* function is a process with a position (pc); it runs atomically from one *)
(* await on an I/O-backed promise to the next.  Awaits on promises that    *)
(* are already settled (the dataset accessors once the document is in      *)
(* memory) only pass through the microtask queue and are part of the step  *)
(* that reaches them.  The upstream realtime client, the file system and   *)
(* the upstream event stream are the environment: each of their promises   *)
(* settles, at any later time, either way.                                 *)
(***************************************************************************)
EXTENDS Integers, Sequences, FiniteSets, TLC

(***************************************************************************)
(* Bounds of the model.                                                    *)
(***************************************************************************)
(*   MaxFrames    frames received from the client socket                   *)
(*   MaxEvents    events yielded by the upstream event stream              *)
(*   MaxItems     items yielded by the upstream, over all events           *)
(*   MaxContents  contents yielded by the upstream, over all items         *)
(*   MaxChunks    chunks yielded by the upstream, over all streams         *)
MaxFrames == 2
MaxEvents == 2
MaxItems == 1
MaxContents == 2
MaxChunks == 2
(*   MaxRecords   records of a dataset whose lookups are checked           *)
(*   MaxQueryLen  characters of a name looked up                           *)
(*   MaxTextLen   characters of a user message run through enrichment      *)
MaxRecords == 2
MaxQueryLen == 2
MaxTextLen == 2

(***************************************************************************)
(* JavaScript strings.                                                     *)
(***************************************************************************)
Undefined == <<"undefined">>

Truthy(v) == v # Undefined /\ v # <<>>

LowerOf(c) == CASE c = "A" -> "a" [] c = "B" -> "b" [] c = "C" -> "c" [] OTHER -> c

ToLowerCase(s) == [i \in 1..Len(s) |-> LowerOf(s[i])]

IsSpace(c) == c = " "

IsWordChar(c) == c \in {"a", "b", "c", "A", "B", "C", "_"}

Includes(s, sub) ==
    \E i \in 0..(Len(s) - Len(sub)) : SubSeq(s, i + 1, i + Len(sub)) = sub

RECURSIVE TrimStart(_)
TrimStart(s) == IF s # <<>> /\ IsSpace(Head(s)) THEN TrimStart(Tail(s)) ELSE s

RECURSIVE TrimEnd(_)
TrimEnd(s) ==
    IF s # <<>> /\ IsSpace(s[Len(s)]) THEN TrimEnd(SubSeq(s, 1, Len(s) - 1)) ELSE s

Trim(s) == TrimEnd(TrimStart(s))

RECURSIVE StripNonWord(_)
StripNonWord(s) ==
    IF s = <<>> THEN <<>>
    ELSE IF IsWordChar(Head(s)) \/ IsSpace(Head(s))
         THEN <<Head(s)>> \o StripNonWord(Tail(s))
         ELSE StripNonWord(Tail(s))

RECURSIVE CollapseSpaces(_)
CollapseSpaces(s) ==
    IF s = <<>> THEN <<>>
    ELSE IF IsSpace(Head(s))
         THEN <<" ">> \o CollapseSpaces(TrimStart(s))
         ELSE <<Head(s)>> \o CollapseSpaces(Tail(s))

normalizeNameKeepsPunctuation(name) == Trim(CollapseSpaces(ToLowerCase(name)))

normalizeName(name) == Trim(CollapseSpaces(StripNonWord(ToLowerCase(name))))

(***************************************************************************)
(* The dataset file and the document JsonDataService keeps in `data'.      *)
(***************************************************************************)
NoFields ==
    [name |-> Undefined, year |-> Undefined, location |-> Undefined,
     artist |-> Undefined, description |-> Undefined,
     cast_information |-> Undefined, original_material |-> Undefined,
     dimensions |-> Undefined]

Sculpture1 ==
    [NoFields EXCEPT !.name = <<"A", "b">>, !.year = <<"c">>,
                     !.artist = <<"b">>]

Sculpture2 ==
    [NoFields EXCEPT !.name = <<"A", "b", " ", "c">>,
                     !.location = <<"B", ".">>, !.description = <<"a">>]

Sculpture3 == [NoFields EXCEPT !.name = <<"b", "c", "a">>]

(* A parsed document with a sculptures array.                              *)
GalleryCollection == <<"G">>

GothicStyle == <<"S">>

Document(records) ==
    [kind |-> "array", sculptures |-> records,
     general_information |->
         [gallery_collection |-> GalleryCollection, gothic_style |-> GothicStyle]]

GoodDocument == Document(<<Sculpture1, Sculpture2, Sculpture3>>)

NoGeneralInformation == [gallery_collection |-> Undefined, gothic_style |-> Undefined]

(* What JSON.parse gives for a file that holds an object without the      *)
(* dataset's keys.                                                         *)
NoArrayDocument ==
    [kind |-> "noarray", sculptures |-> <<>>,
     general_information |-> NoGeneralInformation]

NullData ==
    [kind |-> "null", sculptures |-> <<>>,
     general_information |-> NoGeneralInformation]

FileContents == {"missing", "corrupt", "good", "noarray"}

(* readFile rejects or JSON.parse throws.                                  *)
ReadFails(file) == file \in {"missing", "corrupt"}

ParsedDocument(file) == IF file = "good" THEN GoodDocument ELSE NoArrayDocument

HasArray(d) == d.kind = "array"

sculptures(d) == IF HasArray(d) THEN d.sculptures ELSE <<>>

RECURSIVE InsertByLength(_, _)
InsertByLength(x, s) ==
    IF s = <<>> THEN <<x>>
    ELSE IF Len(Head(s).name) >= Len(x.name)
         THEN <<Head(s)>> \o InsertByLength(x, Tail(s))
         ELSE <<x>> \o s

SortSkipped(s) == s

RECURSIVE SortByNameLengthDesc(_)
SortByNameLengthDesc(s) ==
    IF s = <<>> THEN <<>>
    ELSE LET rest == SortByNameLengthDesc(SubSeq(s, 1, Len(s) - 1))
         IN InsertByLength(s[Len(s)], rest)

findSculptureExactCase(d, name) ==
    LET searchName == Trim(ToLowerCase(name))
        IsExact(s) == s.name = searchName
        exactMatches == SelectSeq(d.sculptures, IsExact)
        normalizedSearch == normalizeName(searchName)
        IsNormalized(s) == normalizeName(s.name) = normalizedSearch
        normalizedMatches == SelectSeq(d.sculptures, IsNormalized)
        IsPartial(s) == Includes(ToLowerCase(s.name), searchName)
    IN IF exactMatches # <<>> THEN exactMatches
       ELSE IF normalizedMatches # <<>> THEN normalizedMatches
       ELSE SortByNameLengthDesc(SelectSeq(d.sculptures, IsPartial))

findSculptureByName(d, name) ==
    LET searchName == Trim(ToLowerCase(name))
        IsExact(s) == ToLowerCase(s.name) = searchName
        exactMatches == SelectSeq(d.sculptures, IsExact)
        normalizedSearch == normalizeName(searchName)
        IsNormalized(s) == normalizeName(s.name) = normalizedSearch
        normalizedMatches == SelectSeq(d.sculptures, IsNormalized)
        IsPartial(s) == Includes(ToLowerCase(s.name), searchName)
    IN IF exactMatches # <<>> THEN exactMatches
       ELSE IF normalizedMatches # <<>> THEN normalizedMatches
       ELSE SortByNameLengthDesc(SelectSeq(d.sculptures, IsPartial))

getSculptureByName(d, name) ==
    LET matches == findSculptureByName(d, name)
    IN IF Len(matches) > 0 THEN <<matches[1]>> ELSE <<>>

FieldPassesStrict(param, field) ==
    ~Truthy(param)
        \/ (Truthy(field) /\ Includes(ToLowerCase(field), Trim(ToLowerCase(param))))

FieldPasses(param, field) ==
    ~(Truthy(param) /\ Truthy(field))
        \/ Includes(ToLowerCase(field), Trim(ToLowerCase(param)))

searchSculpturesUnguarded(d, params) ==
    LET Passes(s) ==
            /\ ~Truthy(params.name)
                   \/ Includes(ToLowerCase(s.name), Trim(ToLowerCase(params.name)))
            /\ FieldPasses(params.artist, s.artist)
            /\ FieldPasses(params.location, s.location)
            /\ FieldPasses(params.year, s.year)
    IN SelectSeq(d.sculptures, Passes)

searchSculpturesExactName(d, params) ==
    LET Passes(s) ==
            /\ ~Truthy(params.name)
                   \/ ToLowerCase(s.name) = Trim(ToLowerCase(params.name))
            /\ FieldPasses(params.artist, s.artist)
            /\ FieldPasses(params.location, s.location)
            /\ FieldPasses(params.year, s.year)
    IN IF ~Truthy(params.name) /\ ~Truthy(params.artist)
            /\ ~Truthy(params.location) /\ ~Truthy(params.year)
       THEN <<>>
       ELSE SelectSeq(d.sculptures, Passes)

searchSculpturesAnyField(d, params) ==
    LET Given(param, field) ==
            /\ Truthy(param) /\ Truthy(field)
            /\ Includes(ToLowerCase(field), Trim(ToLowerCase(param)))
        Passes(s) ==
            \/ Given(params.name, s.name)
            \/ Given(params.artist, s.artist)
            \/ Given(params.location, s.location)
            \/ Given(params.year, s.year)
    IN SelectSeq(d.sculptures, Passes)

searchSculptures(d, params) ==
    LET Passes(s) ==
            /\ ~Truthy(params.name)
                   \/ Includes(ToLowerCase(s.name), Trim(ToLowerCase(params.name)))
            /\ FieldPasses(params.artist, s.artist)
            /\ FieldPasses(params.location, s.location)
            /\ FieldPasses(params.year, s.year)
    IN IF ~Truthy(params.name) /\ ~Truthy(params.artist)
            /\ ~Truthy(params.location) /\ ~Truthy(params.year)
       THEN <<>>
       ELSE SelectSeq(d.sculptures, Passes)

loadDataRethrows(d, file) ==
    IF ReadFails(file) THEN [data |-> d, ok |-> FALSE, threw |-> TRUE]
    ELSE [data |-> ParsedDocument(file), ok |-> TRUE, threw |-> FALSE]

(* loadData on a service holding d: the document it leaves, what it        *)
(* returns, and whether it threw.                                          *)
loadData(d, file) ==
    IF ReadFails(file) THEN [data |-> d, ok |-> FALSE, threw |-> FALSE]
    ELSE [data |-> ParsedDocument(file), ok |-> TRUE, threw |-> FALSE]

(* The file an accessor reads: none unless the service holds no document.  *)
FilesRead(d) == IF d = NullData THEN FileContents ELSE {"unread"}

ensureLoadedOnce(d, file) ==
    [data |-> d, loads |-> 0, threw |-> FALSE]

(* `if (!this.data) await this.loadData()`: the document afterwards, the   *)
(* load attempts made and whether the attempt threw.                       *)
ensureLoaded(d, file) ==
    IF d = NullData
    THEN LET l == loadData(d, file)
         IN [data |-> l.data, loads |-> 1, threw |-> l.threw]
    ELSE [data |-> d, loads |-> 0, threw |-> FALSE]

(* An accessor's call: the document it leaves, the load attempts it made,  *)
(* what it returned (a sequence; <<>> for null) and whether it threw.      *)
Outcome(e, threw, result) ==
    [data |-> e.data, loads |-> e.loads, threw |-> e.threw \/ threw,
     result |-> IF e.threw \/ threw THEN <<>> ELSE result]

findCall(d, file, name) ==
    LET e == ensureLoaded(d, file)
    IN IF e.data = NullData THEN Outcome(e, FALSE, <<>>)
       ELSE IF ~HasArray(e.data) THEN Outcome(e, TRUE, <<>>)
       ELSE Outcome(e, FALSE, findSculptureByName(e.data, name))

getCall(d, file, name) ==
    LET e == ensureLoaded(d, file)
    IN IF e.data = NullData THEN Outcome(e, FALSE, <<>>)
       ELSE IF ~HasArray(e.data) THEN Outcome(e, TRUE, <<>>)
       ELSE Outcome(e, FALSE, getSculptureByName(e.data, name))

searchCall(d, file, params) ==
    LET e == ensureLoaded(d, file)
        none == ~Truthy(params.name) /\ ~Truthy(params.artist)
                    /\ ~Truthy(params.location) /\ ~Truthy(params.year)
    IN IF e.data = NullData THEN Outcome(e, FALSE, <<>>)
       ELSE IF ~HasArray(e.data) THEN Outcome(e, ~none, <<>>)
       ELSE Outcome(e, FALSE, searchSculptures(e.data, params))

(* `x || null` on a field of general_information.                          *)
OrNull(v) == IF Truthy(v) THEN <<v>> ELSE <<>>

getGalleryInfo(d, file) ==
    LET e == ensureLoaded(d, file)
    IN Outcome(e, FALSE, OrNull(e.data.general_information.gallery_collection))

getGothicStyleInfo(d, file) ==
    LET e == ensureLoaded(d, file)
    IN Outcome(e, FALSE, OrNull(e.data.general_information.gothic_style))

(***************************************************************************)
(* RTSession: the state of one session.                                    *)
(*   dataService  the session's reference to its JsonDataService           *)
(*   data         the document held by that JsonDataService                *)
(*   loadPc       position of initializeDataService                        *)
(*   handlers     one entry per frame received, in order of arrival: the   *)
(*                frame and the position of its handleMessage call         *)
(*   upstream     the calls made on the upstream client, in order          *)
(*   wsOut        the frames passed to ws.send, in order                   *)
(*   wsState      the client socket                                        *)
(*   closePc      position of handleClose                                  *)
(*   loopPc       position of initialize / startEventLoop                  *)
(*   ev           the event loop's locals, the errors it has logged and    *)
(*                whether the upstream has accepted the configuration      *)
(*   audioLoop, transcriptLoop  the two loops of handleAudioContent        *)
(*   lastCall     the last lookup made on a loaded JsonDataService outside *)
(*                a frame's handler: its argument and what it returned     *)
(***************************************************************************)
VARIABLES dataService, data, loadPc, handlers, upstream, wsOut, wsState,
          closePc, loopPc, ev, audioLoop, transcriptLoop, lastCall

vars == <<dataService, data, loadPc, handlers, upstream, wsOut, wsState,
          closePc, loopPc, ev, audioLoop, transcriptLoop, lastCall>>

sessionVars == <<wsOut, loopPc, ev, audioLoop, transcriptLoop, lastCall>>

eventVars == <<loopPc, ev, audioLoop, transcriptLoop, lastCall>>

TextNamed == <<"c", " ", "a", "B", " ", "c">>

TextPartial == <<"c", "a">>

TextNone == <<"c", "c">>

UserTexts == {TextNamed, TextPartial, TextNone, <<>>}

FrameKinds == {"binary", "user_message", "other", "malformed"}

(* The bytes of the binary frames a client sends.                          *)
AudioPayloads == {<<0>>, <<255, 7>>}

(* What a frame of a kind can carry: text for a user_message, bytes for a  *)
(* binary frame.                                                           *)
Payloads(kind) ==
    CASE kind = "user_message" -> UserTexts
      [] kind = "binary" -> AudioPayloads
      [] OTHER -> {<<>>}

(***************************************************************************)
(* Calls on the upstream client.                                           *)
(***************************************************************************)
Call(op, role, tag, frame, text, info) ==
    [op |-> op, role |-> role, tag |-> tag, frame |-> frame, text |-> text,
     info |-> info]

Configure == Call("configure", "", "", 0, <<>>, <<>>)

SeedItem(tag) == Call("sendItem", "system", tag, 0, <<>>, <<>>)

ContextItem(f, tag, info) == Call("sendItem", "system", tag, f, <<>>, info)

UserItem(f, text) == Call("sendItem", "user", "user", f, text, <<>>)

GenerateResponse(f) == Call("generateResponse", "", "", f, <<>>, <<>>)

(* new Uint8Array(message): a copy of the frame's bytes, each an octet.     *)
Uint8Array(message) == [i \in 1..Len(message) |-> message[i] % 256]

SendAudioEmpty(f, bytes) == Call("sendAudio", "", "", f, <<>>, <<>>)

(* The bytes of an audio call travel in the call's text field.             *)
SendAudio(f, bytes) == Call("sendAudio", "", "", f, bytes, <<>>)

CloseCall == Call("close", "", "", 0, <<>>, <<>>)

(***************************************************************************)
(* Frames sent to the client socket.                                       *)
(***************************************************************************)
(* src is not on the wire: it names the response content a frame was       *)
(* produced for, which a binary frame does not carry.                      *)
Frame(type, action, id, delta, text, src) ==
    [type |-> type, action |-> action, id |-> id, delta |-> delta, text |-> text,
     src |-> src]

Connected == Frame("control", "connected", "", 0, <<>>, "")

SpeechStarted == Frame("control", "speech_started", "", 0, <<>>, "")

TextDelta(id, delta) == Frame("text_delta", "", id, delta, <<>>, id)

TextDone(id) == Frame("control", "text_done", id, 0, <<>>, id)

Transcription(id, text) == Frame("transcription", "", id, 0, text, "")

Binary(chunk, src) == Frame("binary", "", "", chunk, <<>>, src)

ItemId(n) == "item" \o ToString(n)

ContentId(itemId, contentIndex) == itemId \o "-" \o ToString(contentIndex)

Transcriptions == {Undefined, <<>>, <<"a">>}

IdleLoop == [state |-> "idle", chunks |-> 0, id |-> ""]

NoCall ==
    [op |-> "none", arg |-> <<>>, result |-> <<>>, loads |-> 0, threw |-> FALSE]

(***************************************************************************)
(* enrichWithSculptureData and formatSculptureInfo.                        *)
(***************************************************************************)
InfoLine(label, value) == IF Truthy(value) THEN <<<<label, value>>>> ELSE <<>>

formatSculptureInfo(list) ==
    [i \in 1..Len(list) |->
        <<<<"Name", list[i].name>>>>
            \o InfoLine("Year", list[i].year)
            \o InfoLine("Location", list[i].location)
            \o InfoLine("Artist", list[i].artist)
            \o InfoLine("Description", list[i].description)
            \o InfoLine("Cast Information", list[i].cast_information)
            \o InfoLine("Original Material", list[i].original_material)
            \o InfoLine("Dimensions", list[i].dimensions)]

potentialNames(d, userMessage) ==
    LET names == [i \in 1..Len(sculptures(d)) |-> sculptures(d)[i].name]
        Mentioned(name) == Includes(ToLowerCase(userMessage), ToLowerCase(name))
    IN SelectSeq(names, Mentioned)

bestMatchFirst(names) == names[1]

bestMatch(names) ==
    LET i == CHOOSE i \in 1..Len(names) :
                 /\ \A j \in 1..Len(names) : Len(names[j]) <= Len(names[i])
                 /\ \A j \in 1..(i - 1) : Len(names[j]) < Len(names[i])
    IN names[i]

SearchParams(userMessage) ==
    LET joined == CollapseSpaces(ToLowerCase(userMessage))
    IN [name |-> joined, artist |-> joined, location |-> joined, year |-> joined]

(* What the handler does once enrichment is over: send the user's item.    *)
SendUserStep(f, text, enrichErr) ==
    [pc |-> "awaitUser", calls |-> <<UserItem(f, text)>>, enrichErr |-> enrichErr]

(* The fallback search, entered with the document d in memory (or null     *)
(* after a failed load).                                                   *)
SearchStep(f, text, d) ==
    IF d = NullData THEN SendUserStep(f, text, FALSE)
    ELSE IF ~HasArray(d) THEN SendUserStep(f, text, TRUE)
    ELSE LET results == searchSculptures(d, SearchParams(text))
         IN IF Len(results) > 0
            THEN [pc |-> "awaitContext",
                  calls |-> <<ContextItem(f, "results", formatSculptureInfo(results))>>,
                  enrichErr |-> FALSE]
            ELSE SendUserStep(f, text, FALSE)

EnrichStepAfterUser(f, text, d) ==
    LET names == potentialNames(d, text)
        found == IF Len(names) > 0 THEN getSculptureByName(d, bestMatch(names))
                 ELSE <<>>
    IN IF found # <<>>
       THEN [pc |-> "awaitGenerate",
             calls |-> <<UserItem(f, text),
                         ContextItem(f, "sculpture", formatSculptureInfo(found)),
                         GenerateResponse(f)>>,
             enrichErr |-> FALSE]
       ELSE IF d = NullData
            THEN [pc |-> "awaitLoad", calls |-> <<>>, enrichErr |-> FALSE]
            ELSE SearchStep(f, text, d)

(* enrichWithSculptureData up to its first await on I/O.                   *)
EnrichStep(f, text, d) ==
    LET names == potentialNames(d, text)
        found == IF Len(names) > 0 THEN getSculptureByName(d, bestMatch(names))
                 ELSE <<>>
    IN IF found # <<>>
       THEN [pc |-> "awaitContext",
             calls |-> <<ContextItem(f, "sculpture", formatSculptureInfo(found))>>,
             enrichErr |-> FALSE]
       ELSE IF d = NullData
            THEN [pc |-> "awaitLoad", calls |-> <<>>, enrichErr |-> FALSE]
            ELSE SearchStep(f, text, d)

(* handleTextMessage for a user_message, up to its first await on I/O.     *)
UserMessageStep(f, text) ==
    IF dataService # "null" /\ Truthy(text)
    THEN EnrichStep(f, text, data)
    ELSE SendUserStep(f, text, FALSE)

HandleMessageCatchNotifies(h) ==
    [handler |-> [h EXCEPT !.pc = "done", !.err = TRUE],
     sent |-> <<Frame("error", "", "", 0, <<>>, "")>>,
     socket |-> "closed"]

(* The catch block of handleMessage: the error is logged; nothing is sent  *)
(* to the client and the socket is left as it is.                          *)
HandleMessageCatch(h) ==
    [handler |-> [h EXCEPT !.pc = "done", !.err = TRUE], sent |-> <<>>,
     socket |-> wsState]

(* A step of handleMessage that ends in its catch block.                   *)
Caught(f, h) ==
    LET c == HandleMessageCatch(h)
    IN /\ handlers' = IF f > Len(handlers) THEN Append(handlers, c.handler)
                      ELSE [handlers EXCEPT ![f] = c.handler]
       /\ wsOut' = wsOut \o c.sent
       /\ wsState' = c.socket

(* A step of handleMessage that does not throw.                            *)
NotCaught == UNCHANGED <<wsOut, wsState>>

NewHandler(kind, text) ==
    [kind |-> kind, text |-> text, pc |-> "start", err |-> FALSE,
     enrichErr |-> FALSE]

Apply(f, step) ==
    /\ handlers' = [handlers EXCEPT ![f].pc = step.pc,
                                    ![f].enrichErr = @ \/ step.enrichErr]
    /\ upstream' = upstream \o step.calls

(* ws.on("message"): handleMessage runs to its first await.                *)
HandleMessage(kind, text) ==
    /\ wsState = "open"
    /\ Len(handlers) < MaxFrames
    /\ LET f == Len(handlers) + 1
           h == NewHandler(kind, text)
       IN CASE kind = "binary" ->
                 /\ handlers' = Append(handlers, [h EXCEPT !.pc = "awaitAudio"])
                 /\ upstream' = Append(upstream, SendAudio(f, Uint8Array(text)))
                 /\ NotCaught
            [] kind = "malformed" ->
                 /\ Caught(f, h)
                 /\ upstream' = upstream
            [] kind = "other" ->
                 /\ handlers' = Append(handlers, [h EXCEPT !.pc = "done"])
                 /\ upstream' = upstream
                 /\ NotCaught
            [] kind = "user_message" ->
                 LET step == UserMessageStep(f, text)
                 IN /\ handlers' = Append(handlers,
                           [h EXCEPT !.pc = step.pc, !.enrichErr = step.enrichErr])
                    /\ upstream' = upstream \o step.calls
                    /\ NotCaught
    /\ UNCHANGED <<dataService, data, loadPc, closePc>>
    /\ UNCHANGED eventVars

(* handleBinaryMessage: sendAudio settles.                                 *)
AudioSettled(f, ok) ==
    /\ f \in 1..Len(handlers)
    /\ handlers[f].pc = "awaitAudio"
    /\ IF ok
       THEN /\ handlers' = [handlers EXCEPT ![f].pc = "done"]
            /\ NotCaught
       ELSE Caught(f, handlers[f])
    /\ UNCHANGED <<dataService, data, loadPc, upstream, closePc>>
    /\ UNCHANGED eventVars

(* searchSculptures: the loadData it started settles.                      *)
SearchLoadSettled(f, file) ==
    /\ f \in 1..Len(handlers)
    /\ handlers[f].pc = "awaitLoad"
    /\ data' = IF ReadFails(file) THEN data ELSE ParsedDocument(file)
    /\ Apply(f, SearchStep(f, handlers[f].text, data'))
    /\ UNCHANGED <<dataService, loadPc, wsState, closePc>>
    /\ UNCHANGED sessionVars

ContextSettledUncaught(f, ok) ==
    /\ f \in 1..Len(handlers)
    /\ handlers[f].pc = "awaitContext"
    /\ IF ok
       THEN /\ Apply(f, SendUserStep(f, handlers[f].text, FALSE))
            /\ NotCaught
       ELSE /\ Caught(f, [handlers[f] EXCEPT !.enrichErr = TRUE])
            /\ upstream' = upstream
    /\ UNCHANGED <<dataService, data, loadPc, closePc>>
    /\ UNCHANGED eventVars

(* enrichWithSculptureData: the context item's sendItem settles; a failure *)
(* is caught inside enrichWithSculptureData.                               *)
ContextSettled(f, ok) ==
    /\ f \in 1..Len(handlers)
    /\ handlers[f].pc = "awaitContext"
    /\ Apply(f, SendUserStep(f, handlers[f].text, ~ok))
    /\ NotCaught
    /\ UNCHANGED <<dataService, data, loadPc, closePc>>
    /\ UNCHANGED eventVars

(* handleTextMessage: the user item's sendItem settles.                    *)
UserItemSettled(f, ok) ==
    /\ f \in 1..Len(handlers)
    /\ handlers[f].pc = "awaitUser"
    /\ IF ok
       THEN /\ handlers' = [handlers EXCEPT ![f].pc = "awaitGenerate"]
            /\ upstream' = Append(upstream, GenerateResponse(f))
            /\ NotCaught
       ELSE /\ Caught(f, handlers[f])
            /\ upstream' = upstream
    /\ UNCHANGED <<dataService, data, loadPc, closePc>>
    /\ UNCHANGED eventVars

(* handleTextMessage: generateResponse settles.                            *)
GenerateSettled(f, ok) ==
    /\ f \in 1..Len(handlers)
    /\ handlers[f].pc = "awaitGenerate"
    /\ IF ok
       THEN /\ handlers' = [handlers EXCEPT ![f].pc = "done"]
            /\ NotCaught
       ELSE Caught(f, handlers[f])
    /\ UNCHANGED <<dataService, data, loadPc, upstream, closePc>>
    /\ UNCHANGED eventVars

(* initializeDataService: the loadData started in the constructor settles. *)
InitialLoadSettled(file) ==
    /\ loadPc = "loading"
    /\ loadPc' = "done"
    /\ IF ReadFails(file)
       THEN /\ dataService' = "null"
            /\ data' = data
       ELSE /\ dataService' = dataService
            /\ data' = ParsedDocument(file)
    /\ UNCHANGED <<handlers, upstream, wsState, closePc>>
    /\ UNCHANGED sessionVars

(* handleClose: ws.on("close") fires and client.close() is called.          *)
SocketClose ==
    /\ wsState = "open"
    /\ wsState' = "closed"
    /\ closePc' = "closing"
    /\ upstream' = Append(upstream, CloseCall)
    /\ UNCHANGED <<dataService, data, loadPc, handlers>>
    /\ UNCHANGED sessionVars

CloseSettledRetries(ok) ==
    /\ closePc = "closing"
    /\ closePc' = IF ok THEN "closed" ELSE "closeFailed"
    /\ upstream' = IF ok THEN upstream ELSE Append(upstream, CloseCall)
    /\ UNCHANGED <<dataService, data, loadPc, handlers, wsState>>
    /\ UNCHANGED sessionVars

(* handleClose: client.close() settles; a failure is logged.               *)
CloseSettled(ok) ==
    /\ closePc = "closing"
    /\ closePc' = IF ok THEN "closed" ELSE "closeFailed"
    /\ UNCHANGED <<dataService, data, loadPc, handlers, upstream, wsState>>
    /\ UNCHANGED sessionVars

(***************************************************************************)
(* initialize and startEventLoop.                                          *)
(***************************************************************************)
msgVars == <<dataService, data, loadPc, handlers, wsState, closePc, lastCall>>

(* The chunks forwarded so far, over all streams (the model's budget).     *)
ChunksSent == Len(SelectSeq(wsOut, LAMBDA m : m.type \in {"text_delta", "binary"}))

UnawaitedSeedsShort == <<SeedItem("template"), SeedItem("style")>>

(* The system messages startEventLoop sends without awaiting them.         *)
UnawaitedSeeds == <<SeedItem("template"), SeedItem("style"), SeedItem("database")>>

(* initialize: configure settles; on success the greeting is sent and      *)
(* startEventLoop runs to its first await.                                 *)
ConfigureSettledUnchecked(ok) ==
    /\ loopPc = "configuring"
    /\ ev' = [ev EXCEPT !.configured = IF ok THEN "ok" ELSE "failed"]
    /\ wsOut' = Append(wsOut, Connected)
    /\ upstream' = Append(upstream, SeedItem("persona"))
    /\ loopPc' = "seeding"
    /\ UNCHANGED <<audioLoop, transcriptLoop>>
    /\ UNCHANGED msgVars

ConfigureSettled(ok) ==
    /\ loopPc = "configuring"
    /\ ev' = [ev EXCEPT !.configured = IF ok THEN "ok" ELSE "failed"]
    /\ IF ok
       THEN /\ wsOut' = Append(wsOut, Connected)
            /\ upstream' = Append(upstream, SeedItem("persona"))
            /\ loopPc' = "seeding"
       ELSE /\ loopPc' = "configFailed"
            /\ UNCHANGED <<wsOut, upstream>>
    /\ UNCHANGED <<audioLoop, transcriptLoop>>
    /\ UNCHANGED msgVars

(* startEventLoop: the persona item's sendItem settles; on success the     *)
(* other system messages are sent and the iteration of events() begins.    *)
PersonaSettled(ok) ==
    /\ loopPc = "seeding"
    /\ IF ok
       THEN /\ upstream' = upstream \o UnawaitedSeeds
            /\ loopPc' = "events"
       ELSE /\ loopPc' = "seedFailed"
            /\ upstream' = upstream
    /\ UNCHANGED <<wsOut, ev, audioLoop, transcriptLoop>>
    /\ UNCHANGED msgVars

(* The catch blocks of the handlers under startEventLoop and its own: each *)
(* logs the error and rethrows it, up to startEventLoop's caller, which    *)
(* does not await it.  ev.errors holds the messages logged.                *)
EventLoopCatch == "failed"

Rethrown(e, messages) == [e EXCEPT !.errors = @ \cup messages \cup {"Error in event loop"}]

InResponse == {"Error handling response"}

InTextContent == {"Error handling text content"} \cup InResponse

InAudioContent == {"Error handling audio content"} \cup InResponse

InInputAudio == {"Error handling input audio"}

(* startEventLoop: events() yields its next event, ends or throws.         *)
NextEvent(outcome) ==
    /\ loopPc = "events"
    /\ outcome \in {"response", "input_audio", "other"} => ev.events < MaxEvents
    /\ CASE outcome = "response" ->
              /\ ev' = [ev EXCEPT !.events = @ + 1]
              /\ loopPc' = "items"
              /\ wsOut' = wsOut
         [] outcome = "input_audio" ->
              /\ ev' = [ev EXCEPT !.events = @ + 1, !.items = @ + 1,
                                  !.itemId = ItemId(ev.items + 1)]
              /\ loopPc' = "awaitCompletion"
              /\ wsOut' = Append(wsOut, SpeechStarted)
         [] outcome = "other" ->
              /\ ev' = [ev EXCEPT !.events = @ + 1]
              /\ UNCHANGED <<loopPc, wsOut>>
         [] outcome = "end" ->
              /\ loopPc' = "ended"
              /\ UNCHANGED <<ev, wsOut>>
         [] outcome = "throw" ->
              /\ loopPc' = EventLoopCatch
              /\ ev' = Rethrown(ev, {})
              /\ wsOut' = wsOut
    /\ UNCHANGED <<upstream, audioLoop, transcriptLoop>>
    /\ UNCHANGED msgVars

CompletionSettledRaw(ok, transcription) ==
    /\ loopPc = "awaitCompletion"
    /\ IF ok
       THEN /\ wsOut' = Append(wsOut, Transcription(ev.itemId, transcription))
            /\ loopPc' = "events"
            /\ ev' = [ev EXCEPT !.transcription = transcription]
       ELSE /\ loopPc' = EventLoopCatch
            /\ ev' = Rethrown(ev, InInputAudio)
            /\ wsOut' = wsOut
    /\ UNCHANGED <<upstream, audioLoop, transcriptLoop>>
    /\ UNCHANGED msgVars

(* handleInputAudio: waitForCompletion settles; transcription is the value *)
(* the item then holds.                                                    *)
CompletionSettled(ok, transcription) ==
    /\ loopPc = "awaitCompletion"
    /\ IF ok
       THEN /\ wsOut' = Append(wsOut, Transcription(ev.itemId,
                   IF Truthy(transcription) THEN transcription ELSE <<>>))
            /\ loopPc' = "events"
            /\ ev' = [ev EXCEPT !.transcription = transcription]
       ELSE /\ loopPc' = EventLoopCatch
            /\ ev' = Rethrown(ev, InInputAudio)
            /\ wsOut' = wsOut
    /\ UNCHANGED <<upstream, audioLoop, transcriptLoop>>
    /\ UNCHANGED msgVars

(* handleResponse: the response yields its next item, ends or throws.      *)
NextItem(outcome) ==
    /\ loopPc = "items"
    /\ outcome \in {"message", "other"} => ev.items < MaxItems
    /\ CASE outcome = "message" ->
              /\ ev' = [ev EXCEPT !.items = @ + 1,
                                  !.itemId = ItemId(ev.items + 1),
                                  !.contentIndex = 0]
              /\ loopPc' = "contents"
         [] outcome = "other" ->
              /\ ev' = [ev EXCEPT !.items = @ + 1]
              /\ loopPc' = loopPc
         [] outcome = "end" ->
              /\ loopPc' = "events"
              /\ ev' = ev
         [] outcome = "throw" ->
              /\ loopPc' = EventLoopCatch
              /\ ev' = Rethrown(ev, InResponse)
    /\ UNCHANGED <<upstream, wsOut, audioLoop, transcriptLoop>>
    /\ UNCHANGED msgVars

(* handleResponse: the item yields its next content, ends or throws.  A    *)
(* text content enters handleTextContent, an audio content starts the two  *)
(* loops of handleAudioContent.                                            *)
NextContent(outcome) ==
    /\ loopPc = "contents"
    /\ outcome \in {"text", "audio", "other"} => ev.contents < MaxContents
    /\ CASE outcome = "text" ->
              /\ ev' = [ev EXCEPT !.contentIndex = @ + 1, !.contents = @ + 1,
                                  !.chunks = 0,
                                  !.contentId = ContentId(ev.itemId, ev.contentIndex)]
              /\ loopPc' = "textChunks"
              /\ UNCHANGED <<audioLoop, transcriptLoop>>
         [] outcome = "audio" ->
              /\ ev' = [ev EXCEPT !.contentIndex = @ + 1, !.contents = @ + 1]
              /\ loopPc' = "audio"
              /\ audioLoop' =
                     [state |-> "running", chunks |-> 0,
                      id |-> ContentId(ev.itemId, ev.contentIndex)]
              /\ transcriptLoop' =
                     [state |-> "running", chunks |-> 0,
                      id |-> ContentId(ev.itemId, ev.contentIndex)]
         [] outcome = "other" ->
              /\ ev' = [ev EXCEPT !.contentIndex = @ + 1, !.contents = @ + 1]
              /\ UNCHANGED <<loopPc, audioLoop, transcriptLoop>>
         [] outcome = "end" ->
              /\ loopPc' = "items"
              /\ UNCHANGED <<ev, audioLoop, transcriptLoop>>
         [] outcome = "throw" ->
              /\ loopPc' = EventLoopCatch
              /\ ev' = Rethrown(ev, InResponse)
              /\ UNCHANGED <<audioLoop, transcriptLoop>>
    /\ UNCHANGED <<upstream, wsOut>>
    /\ UNCHANGED msgVars

TextChunkAlwaysDone(outcome) ==
    /\ loopPc = "textChunks"
    /\ outcome = "chunk" => ChunksSent < MaxChunks
    /\ CASE outcome = "chunk" ->
              /\ wsOut' = Append(wsOut, TextDelta(ev.contentId, ev.chunks + 1))
              /\ ev' = [ev EXCEPT !.chunks = @ + 1]
              /\ loopPc' = loopPc
         [] outcome = "end" ->
              /\ wsOut' = Append(wsOut, TextDone(ev.contentId))
              /\ loopPc' = "contents"
              /\ ev' = ev
         [] outcome = "throw" ->
              /\ loopPc' = EventLoopCatch
              /\ ev' = Rethrown(ev, InTextContent)
              /\ wsOut' = Append(wsOut, TextDone(ev.contentId))
    /\ UNCHANGED <<upstream, audioLoop, transcriptLoop>>
    /\ UNCHANGED msgVars

(* handleTextContent: textChunks() yields a chunk, ends or throws.         *)
TextChunk(outcome) ==
    /\ loopPc = "textChunks"
    /\ outcome = "chunk" => ChunksSent < MaxChunks
    /\ CASE outcome = "chunk" ->
              /\ wsOut' = Append(wsOut, TextDelta(ev.contentId, ev.chunks + 1))
              /\ ev' = [ev EXCEPT !.chunks = @ + 1]
              /\ loopPc' = loopPc
         [] outcome = "end" ->
              /\ wsOut' = Append(wsOut, TextDone(ev.contentId))
              /\ loopPc' = "contents"
              /\ ev' = ev
         [] outcome = "throw" ->
              /\ loopPc' = EventLoopCatch
              /\ ev' = Rethrown(ev, InTextContent)
              /\ wsOut' = wsOut
    /\ UNCHANGED <<upstream, audioLoop, transcriptLoop>>
    /\ UNCHANGED msgVars

PromiseRace(a, t) ==
    IF loopPc # "audio" THEN loopPc
    ELSE IF a.state = "failed" \/ t.state = "failed" THEN EventLoopCatch
    ELSE IF a.state = "done" \/ t.state = "done" THEN "contents"
    ELSE "audio"

(* handleAudioContent: where handleResponse stands once a loop has moved.   *)
(* Promise.all resolves when both loops have ended and rejects as soon as  *)
(* one of them throws; it does not stop the other loop.                    *)
PromiseAll(a, t) ==
    IF loopPc # "audio" THEN loopPc
    ELSE IF a.state = "failed" \/ t.state = "failed" THEN EventLoopCatch
    ELSE IF a.state = "done" /\ t.state = "done" THEN "contents"
    ELSE "audio"

(* handleAudioChunks: audioChunks() yields a chunk, ends or throws.        *)
AudioChunk(outcome) ==
    /\ audioLoop.state = "running"
    /\ outcome = "chunk" => ChunksSent < MaxChunks
    /\ CASE outcome = "chunk" ->
              /\ wsOut' = Append(wsOut, Binary(audioLoop.chunks + 1, audioLoop.id))
              /\ audioLoop' = [audioLoop EXCEPT !.chunks = @ + 1]
         [] outcome = "end" ->
              /\ audioLoop' = [audioLoop EXCEPT !.state = "done"]
              /\ wsOut' = wsOut
         [] outcome = "throw" ->
              /\ audioLoop' = [audioLoop EXCEPT !.state = "failed"]
              /\ wsOut' = wsOut
    /\ loopPc' = PromiseAll(audioLoop', transcriptLoop)
    /\ ev' = IF loopPc' = EventLoopCatch /\ loopPc = "audio"
             THEN Rethrown(ev, InAudioContent) ELSE ev
    /\ UNCHANGED <<upstream, transcriptLoop>>
    /\ UNCHANGED msgVars

(* handleAudioTranscript: transcriptChunks() yields a chunk, ends or       *)
(* throws.                                                                 *)
TranscriptChunk(outcome) ==
    /\ transcriptLoop.state = "running"
    /\ outcome = "chunk" => ChunksSent < MaxChunks
    /\ CASE outcome = "chunk" ->
              /\ wsOut' = Append(wsOut,
                     TextDelta(transcriptLoop.id, transcriptLoop.chunks + 1))
              /\ transcriptLoop' = [transcriptLoop EXCEPT !.chunks = @ + 1]
         [] outcome = "end" ->
              /\ wsOut' = Append(wsOut, TextDone(transcriptLoop.id))
              /\ transcriptLoop' = [transcriptLoop EXCEPT !.state = "done"]
         [] outcome = "throw" ->
              /\ transcriptLoop' = [transcriptLoop EXCEPT !.state = "failed"]
              /\ wsOut' = wsOut
    /\ loopPc' = PromiseAll(audioLoop, transcriptLoop')
    /\ ev' = IF loopPc' = EventLoopCatch /\ loopPc = "audio"
             THEN Rethrown(ev, InAudioContent) ELSE ev
    /\ UNCHANGED <<upstream, audioLoop>>
    /\ UNCHANGED msgVars

(***************************************************************************)
(* The session after its constructor has run: the handlers are registered, *)
(* initializeDataService has created the JsonDataService and awaits its    *)
(* loadData, initialize awaits configure.                                  *)
(***************************************************************************)
Init ==
    /\ dataService = "object"
    /\ data = NullData
    /\ loadPc = "loading"
    /\ handlers = <<>>
    /\ upstream = <<Configure>>
    /\ wsOut = <<>>
    /\ wsState = "open"
    /\ closePc = "idle"
    /\ loopPc = "configuring"
    /\ ev = [events |-> 0, items |-> 0, contents |-> 0, itemId |-> "",
             contentIndex |-> 0, contentId |-> "", chunks |-> 0,
             transcription |-> Undefined, errors |-> {},
             configured |-> "pending"]
    /\ audioLoop = IdleLoop
    /\ transcriptLoop = IdleLoop
    /\ lastCall = NoCall

Outcomes == {"chunk", "end", "throw"}

(* The reactive duty: the socket's message and close handlers and the      *)
(* dataset load.                                                           *)
NextMessages ==
    \/ \E kind \in FrameKinds : \E text \in Payloads(kind) :
           HandleMessage(kind, text)
    \/ \E f \in 1..MaxFrames, ok \in BOOLEAN : AudioSettled(f, ok)
    \/ \E f \in 1..MaxFrames, file \in FileContents : SearchLoadSettled(f, file)
    \/ \E f \in 1..MaxFrames, ok \in BOOLEAN : ContextSettled(f, ok)
    \/ \E f \in 1..MaxFrames, ok \in BOOLEAN : UserItemSettled(f, ok)
    \/ \E f \in 1..MaxFrames, ok \in BOOLEAN : GenerateSettled(f, ok)
    \/ \E file \in FileContents : InitialLoadSettled(file)
    \/ SocketClose
    \/ \E ok \in BOOLEAN : CloseSettled(ok)

(* The proactive duty: initialize, startEventLoop and the handlers of the  *)
(* upstream events.                                                        *)
NextEvents ==
    \/ \E ok \in BOOLEAN : ConfigureSettled(ok)
    \/ \E ok \in BOOLEAN : PersonaSettled(ok)
    \/ \E o \in {"response", "input_audio", "other", "end", "throw"} : NextEvent(o)
    \/ \E ok \in BOOLEAN, t \in Transcriptions : CompletionSettled(ok, t)
    \/ \E o \in {"message", "other", "end", "throw"} : NextItem(o)
    \/ \E o \in {"text", "audio", "other", "end", "throw"} : NextContent(o)
    \/ \E o \in Outcomes : TextChunk(o)
    \/ \E o \in Outcomes : AudioChunk(o)
    \/ \E o \in Outcomes : TranscriptChunk(o)

Next == NextMessages \/ NextEvents

Spec == Init /\ [][Next]_vars

SpecMessages == Init /\ [][NextMessages]_vars

SpecEvents == Init /\ [][NextEvents]_vars

(* The proactive duty while the client socket closes: handleClose runs     *)
(* beside initialize and the event loop, which nothing stops.              *)
NextClosing ==
    \/ NextEvents
    \/ SocketClose
    \/ \E ok \in BOOLEAN : CloseSettled(ok)

SpecClosing == Init /\ [][NextClosing]_vars

(***************************************************************************)
(* JsonDataService with a dataset in memory: the lookups by name.          *)
(***************************************************************************)
SeqsUpTo(S, n) == UNION {[1..k -> S] : k \in 0..n}

Named(name) == [NoFields EXCEPT !.name = name]

(* Names as a dataset can hold them: differing in case, in punctuation, in *)
(* inner whitespace, one inside another.                                   *)
NamePool ==
    {<<"a", "b">>, <<"A", "b">>, <<"a", ".", "b">>, <<"a", " ", "b">>,
     <<"b", "a", "b">>, <<"B">>}

NameDocuments ==
    {Document(s) : s \in SeqsUpTo({Named(n) : n \in NamePool}, MaxRecords)}

QueryChars == {"a", "A", "b", " ", "."}

Queries == SeqsUpTo(QueryChars, MaxQueryLen)

(* The service after a successful loadData, no session activity.           *)
Loaded(documents) ==
    /\ dataService = "object"
    /\ data \in documents
    /\ loadPc = "done"
    /\ handlers = <<>>
    /\ upstream = <<Configure>>
    /\ wsOut = <<>>
    /\ wsState = "open"
    /\ closePc = "idle"
    /\ loopPc = "configuring"
    /\ ev = [events |-> 0, items |-> 0, contents |-> 0, itemId |-> "",
             contentIndex |-> 0, contentId |-> "", chunks |-> 0,
             transcription |-> Undefined, errors |-> {},
             configured |-> "pending"]
    /\ audioLoop = IdleLoop
    /\ transcriptLoop = IdleLoop
    /\ lastCall = NoCall

InitNames == Loaded(NameDocuments)

(* A lookup changes nothing a later lookup reads, so one lookup is         *)
(* observed per behaviour: the call is made and what it returns is kept.   *)
Called(op, arg, outcome) ==
    /\ lastCall = NoCall
    /\ loadPc = "done"
    /\ lastCall' = [op |-> op, arg |-> arg, result |-> outcome.result,
                    loads |-> outcome.loads, threw |-> outcome.threw]
    /\ data' = outcome.data
    /\ UNCHANGED <<dataService, loadPc, handlers, upstream, wsOut,
                   wsState, closePc, loopPc, ev, audioLoop, transcriptLoop>>

Returned(op, arg, result) ==
    Called(op, arg, [data |-> data, loads |-> 0, threw |-> FALSE, result |-> result])

(* findSculptureByName, called once the load the service was started with  *)
(* has settled.                                                            *)
FindByName(file, name) == Called("find", name, findCall(data, file, name))

(* getSculptureByName, likewise.                                           *)
GetByName(file, name) == Called("get", name, getCall(data, file, name))

NextNames ==
    \/ \E file \in FilesRead(data), name \in Queries : FindByName(file, name)
    \/ \E file \in FilesRead(data), name \in Queries : GetByName(file, name)

SpecNames == InitNames /\ [][NextNames]_vars

(***************************************************************************)
(* JsonDataService with a dataset in memory: the multi-field search, and   *)
(* the enrichment of a user message from it.                               *)
(***************************************************************************)
FullRecord ==
    [name |-> <<"a", "b">>, year |-> <<"a">>, location |-> <<"a", ".">>,
     artist |-> <<"a", "b">>, description |-> <<"a">>,
     cast_information |-> <<"b">>, original_material |-> <<"a">>,
     dimensions |-> <<"b">>]

(* The optional fields a search looks at that a record has: none, one of  *)
(* them, all of them.                                                      *)
FieldSets == {{}, {"artist"}, {"location"}, {"year"}, {"artist", "location", "year"}}

FieldRecords ==
    {[k \in DOMAIN NoFields |->
         IF k = "name" THEN n ELSE IF k \in fs THEN FullRecord[k] ELSE Undefined] :
        n \in {<<"a", "b">>, <<"B">>}, fs \in FieldSets}
    \cup {FullRecord}

FieldDocuments == {Document(s) : s \in SeqsUpTo(FieldRecords, MaxRecords)}

(* The params of searchSculptures: each criterion absent, empty or given.  *)
Criteria ==
    [name : {Undefined, <<>>, <<"a">>, <<" ", "B", " ">>},
     artist : {Undefined, <<"B">>, <<"c">>},
     location : {Undefined, <<"A">>},
     year : {Undefined, <<"a">>, <<"b">>}]

TextChars == {"a", "b", "A", " "}

Texts == SeqsUpTo(TextChars, MaxTextLen)

InitSearch == Loaded(FieldDocuments)

(* searchSculptures, called once the load the service was started with    *)
(* has settled.                                                            *)
Search(file, params) == Called("search", params, searchCall(data, file, params))

(* enrichWithSculptureData on a session whose dataset is loaded: the calls *)
(* it and the handler make on the upstream up to the first one awaited.    *)
Enrich(userMessage) ==
    /\ HasArray(data)
    /\ dataService # "null"
    /\ Returned("enrich", userMessage, EnrichStep(1, userMessage, data).calls)

NextSearch ==
    \/ \E file \in FilesRead(data), params \in Criteria : Search(file, params)
    \/ \E userMessage \in Texts : Enrich(userMessage)

SpecSearch == InitSearch /\ [][NextSearch]_vars

(***************************************************************************)
(* The HTTP surface: a JsonDataService created and loaded at start-up,     *)
(* then asked through its accessors and through the REST routes.           *)
(***************************************************************************)
(* `await dataService.loadData()` at start-up settles; what it returns is  *)
(* not looked at.                                                          *)
StartupLoadSettled(file) ==
    /\ loadPc = "loading"
    /\ lastCall = NoCall
    /\ loadPc' = "done"
    /\ data' = loadData(data, file).data
    /\ UNCHANGED <<dataService, handlers, upstream, wsState, closePc>>
    /\ UNCHANGED sessionVars

GalleryInfo(file) == Called("gallery", <<>>, getGalleryInfo(data, file))

GothicStyleInfo(file) == Called("gothic", <<>>, getGothicStyleInfo(data, file))

Respond(status, body) == [status |-> status, body |-> body]

(* The accessor threw inside the async route handler: nothing is sent.     *)
NoResponse == Respond(0, <<>>)

(* res.json(x) if x is there, else res.status(404).json({error}).          *)
FoundOr404(o, error) ==
    [o EXCEPT !.result =
        IF o.threw THEN NoResponse
        ELSE IF o.result # <<>> THEN Respond(200, o.result[1])
        ELSE Respond(404, [error |-> error])]

(* res.json(sculptures).                                                   *)
JsonOf(o) ==
    [o EXCEPT !.result = IF o.threw THEN NoResponse ELSE Respond(200, o.result)]

RouteGallery(file) ==
    Called("GET /api/general/gallery", <<>>,
           FoundOr404(getGalleryInfo(data, file), "Gallery information not found"))

RouteGothic(file) ==
    Called("GET /api/general/gothic", <<>>,
           FoundOr404(getGothicStyleInfo(data, file),
                      "Gothic style information not found"))

RouteSculptures(file, query) ==
    Called("GET /api/sculptures", query, JsonOf(searchCall(data, file, query)))

RouteSculptureByName(file, name) ==
    /\ name # <<>>
    /\ Called("GET /api/sculptures/:name", name,
              FoundOr404(getCall(data, file, name), "Sculpture not found"))

NextStore ==
    \/ \E file \in FileContents : StartupLoadSettled(file)
    \/ \E file \in FilesRead(data), name \in Queries : FindByName(file, name)
    \/ \E file \in FilesRead(data), name \in Queries : GetByName(file, name)
    \/ \E file \in FilesRead(data), params \in Criteria : Search(file, params)
    \/ \E file \in FilesRead(data) : GalleryInfo(file)
    \/ \E file \in FilesRead(data) : GothicStyleInfo(file)
    \/ \E file \in FilesRead(data) : RouteGallery(file)
    \/ \E file \in FilesRead(data) : RouteGothic(file)
    \/ \E file \in FilesRead(data), query \in Criteria : RouteSculptures(file, query)
    \/ \E file \in FilesRead(data), name \in Queries : RouteSculptureByName(file, name)

SpecStore == Init /\ [][NextStore]_vars

(***************************************************************************)
(* Properties of the reactive duty.                                        *)
(***************************************************************************)
CallsOf(f) == SelectSeq(upstream, LAMBDA c : c.frame = f)

ShapeOf(c) ==
    CASE c.op = "generateResponse" -> "generate"
      [] c.op = "sendAudio" -> "audio"
      [] c.op = "sendItem" /\ c.role = "system" -> "context"
      [] c.op = "sendItem" /\ c.role = "user" -> "user"
      [] OTHER -> c.op

Shapes(f) == [i \in 1..Len(CallsOf(f)) |-> ShapeOf(CallsOf(f)[i])]

IsPrefix(s, t) == Len(s) <= Len(t) /\ SubSeq(t, 1, Len(s)) = s

WithContext == <<"context", "user", "generate">>

WithoutContext == <<"user", "generate">>

Finished(f) == handlers[f].pc = "done" /\ ~handlers[f].err

UserFrames == {f \in 1..Len(handlers) : handlers[f].kind = "user_message"}

(* C1: the upstream calls made for a user_message frame are, in this       *)
(* order, the context system message (when enrichment produced one), the   *)
(* user's own item carrying the frame's text, and one generateResponse:    *)
(* at every moment the calls made so far are a prefix of that sequence,    *)
(* and they are the whole sequence once the frame is handled without       *)
(* error.                                                                  *)
C1_UserMessageCallOrder ==
    \A f \in UserFrames :
        /\ IsPrefix(Shapes(f), WithContext) \/ IsPrefix(Shapes(f), WithoutContext)
        /\ Finished(f) => Shapes(f) \in {WithContext, WithoutContext}
        /\ \A i \in 1..Len(CallsOf(f)) :
               CallsOf(f)[i].role = "user" => CallsOf(f)[i].text = handlers[f].text

C1_Witness ==
    \E f \in UserFrames : Finished(f) /\ Shapes(f) = WithContext

(* C2: the upstream calls of two frames are never interleaved: every call  *)
(* made for an earlier frame comes before every call made for a later one. *)
C2_HandlersSerialized ==
    \A i, j \in 1..Len(upstream) :
        (i < j /\ upstream[i].frame > 0 /\ upstream[j].frame > 0)
            => upstream[i].frame <= upstream[j].frame

(* C8: a failure while handling one frame is absorbed by handleMessage:    *)
(* nothing is sent to the client, the socket is closed only by the client, *)
(* and every frame whose own handling did not fail has all its upstream    *)
(* calls made, whatever happened to the frames before it.                  *)
C8_FailureAbsorbed ==
    /\ wsOut = <<>>
    /\ wsState = "closed" <=> closePc # "idle"
    /\ \A f \in 1..Len(handlers) :
           Finished(f) =>
               CASE handlers[f].kind = "binary" -> Shapes(f) = <<"audio">>
                 [] handlers[f].kind = "user_message" ->
                        Shapes(f) \in {WithContext, WithoutContext}
                 [] OTHER -> Shapes(f) = <<>>

C8_Witness ==
    \E f, g \in 1..Len(handlers) :
        /\ f < g
        /\ handlers[f].err
        /\ handlers[g].kind = "user_message"
        /\ Finished(g)
        /\ wsState = "open"

(* C10: a failure inside enrichment (the dataset lookup, the search or the *)
(* context item's sendItem) never reaches the caller: the user's own item  *)
(* has been sent upstream for that frame, and generateResponse follows it  *)
(* unless sending the user's item itself fails.                            *)
C10_EnrichmentNeverFails ==
    \A f \in UserFrames :
        handlers[f].enrichErr =>
            /\ \E i \in 1..Len(CallsOf(f)) : CallsOf(f)[i] = UserItem(f, handlers[f].text)
            /\ handlers[f].pc \in {"awaitUser", "awaitGenerate", "done"}
            /\ handlers[f].pc \in {"awaitGenerate", "done"} /\ ~handlers[f].err
                   => Shapes(f)[Len(Shapes(f))] = "generate"

C10_Witness ==
    /\ \E f \in UserFrames :
           handlers[f].enrichErr /\ Finished(f) /\ Shapes(f) = WithContext
    /\ \E f \in UserFrames :
           handlers[f].enrichErr /\ Finished(f) /\ Shapes(f) = WithoutContext

(***************************************************************************)
(* Properties of the proactive duty.                                       *)
(***************************************************************************)
Greetings == SelectSeq(wsOut, LAMBDA m : m = Connected)

Seeds == SelectSeq(upstream, LAMBDA c : c.op = "sendItem" /\ c.role = "system" /\ c.frame = 0)

SeedTags == [i \in 1..Len(Seeds) |-> Seeds[i].tag]

(* startEventLoop has been called.                                         *)
LoopStarted == loopPc \notin {"configuring", "configFailed"}

(* startEventLoop has begun to iterate events().                           *)
ConsumingEvents == loopPc \notin {"configuring", "configFailed", "seeding", "seedFailed"}

(* C3: the greeting is sent at most once, only once configure has          *)
(* succeeded, and it is the first frame sent on the socket; when configure *)
(* fails there is no greeting, startEventLoop is not called and none of    *)
(* its messages or events is seen.                                         *)
C3_GreetingFirstAfterConfigure ==
    /\ Len(Greetings) <= 1
    /\ wsOut # <<>> => wsOut[1] = Connected
    /\ Greetings # <<>> => ev.configured = "ok"
    /\ ev.configured # "ok" =>
           /\ wsOut = <<>> /\ Seeds = <<>> /\ ev.events = 0
           /\ ~LoopStarted
    /\ ev.configured = "failed" => loopPc = "configFailed"

C3_Witness ==
    /\ Len(wsOut) > 1
    /\ wsOut[1] = Connected
    /\ Len(Greetings) = 1

(* C4, as stated: exactly three system messages (persona, template,        *)
(* style) have been sent when the event stream is being consumed.          *)
C4_ThreeSeeds ==
    ConsumingEvents => SeedTags = <<"persona", "template", "style">>

(* C4, amended: after the greeting, startEventLoop issues exactly four     *)
(* system messages, in the order persona, description template, response   *)
(* style, database context, and all four have been issued before the      *)
(* first upstream event is consumed; until the persona message has been    *)
(* accepted no other one is issued.                                        *)
C4_FourSeeds ==
    /\ ConsumingEvents =>
           SeedTags = <<"persona", "template", "style", "database">>
    /\ ~ConsumingEvents => IsPrefix(SeedTags, <<"persona">>)
    /\ Seeds # <<>> => Greetings # <<>>

C4_Witness == ev.events > 0 /\ Len(Seeds) = 4

ContentIds == {wsOut[i].id : i \in 1..Len(wsOut)} \ {""}

TextFramesOf(id) ==
    SelectSeq(wsOut, LAMBDA m : m.id = id /\ m.type \in {"text_delta", "control"})

(* The frames of a text stream: its deltas in chunk order, then text_done  *)
(* when done is TRUE.                                                      *)
StreamFrames(id, n, done) ==
    [i \in 1..n |-> TextDelta(id, i)] \o (IF done THEN <<TextDone(id)>> ELSE <<>>)

(* C5: the frames sent for a text content are its chunks, in order, each   *)
(* as a text_delta with the id <itemId>-<contentIndex>, followed by one    *)
(* text_done with that id once the stream has ended; there is no text_done *)
(* when the stream throws.                                                 *)
C5_TextContentFrames ==
    /\ ev.contentId # "" =>
            LET id == ev.contentId
                ended == loopPc # "textChunks"
                             /\ "Error handling text content" \notin ev.errors
            IN /\ loopPc = "textChunks" =>
                      id = ev.itemId \o "-" \o ToString(ev.contentIndex - 1)
               /\ TextFramesOf(id) = StreamFrames(id, ev.chunks, ended)
    /\ \A id \in ContentIds :
           LET frames == TextFramesOf(id)
               deltas == SelectSeq(frames, LAMBDA m : m.type = "text_delta")
           IN frames = StreamFrames(id, Len(deltas), Len(frames) > Len(deltas))

C5_Witness ==
    /\ ev.contentId # ""
    /\ ev.chunks >= 2
    /\ TextFramesOf(ev.contentId) = StreamFrames(ev.contentId, ev.chunks, TRUE)

(* C6, as stated: no frame of a content, binary or text_delta, is sent     *)
(* after the text_done with the content's id.                              *)
C6_NothingAfterTextDone ==
    \A i, j \in 1..Len(wsOut) :
        (i < j /\ wsOut[i].action = "text_done") => wsOut[j].src # wsOut[i].id

(* C6, amended: the two loops of an audio content run concurrently and,    *)
(* unless one of them throws, handleResponse goes on only when both have   *)
(* ended; text_done is sent when the transcript loop ends, so no           *)
(* text_delta and no second text_done of the content follows it, while     *)
(* binary chunks of the content may.                                       *)
C6_AudioContentJoined ==
    /\ loopPc \notin {"audio", "failed"} =>
           audioLoop.state \in {"idle", "done"} /\ transcriptLoop.state \in {"idle", "done"}
    /\ loopPc = "audio" =>
           /\ "running" \in {audioLoop.state, transcriptLoop.state}
           /\ "failed" \notin {audioLoop.state, transcriptLoop.state}
    /\ transcriptLoop.id # "" =>
           TextFramesOf(transcriptLoop.id) =
               StreamFrames(transcriptLoop.id, transcriptLoop.chunks,
                            transcriptLoop.state = "done")

C6_Witness ==
    /\ loopPc = "contents"
    /\ audioLoop.state = "done"
    /\ transcriptLoop.state = "done"
    /\ \E i, j \in 1..Len(wsOut) :
           /\ i < j
           /\ wsOut[i] = TextDone(transcriptLoop.id)
           /\ wsOut[j].type = "binary"
           /\ wsOut[j].src = transcriptLoop.id

TranscriptionFrames == SelectSeq(wsOut, LAMBDA m : m.type = "transcription")

SpeechStartedFrames == SelectSeq(wsOut, LAMBDA m : m = SpeechStarted)

(* C7: each input_audio event gives a speech_started message and, once the *)
(* item has completed, one transcription message right after it, carrying  *)
(* the item's id and its transcription ("" when there is none); while the  *)
(* completion is awaited, and when it fails, there is no transcription     *)
(* message for the item.                                                   *)
C7_InputAudioFrames ==
    /\ \A j \in 1..Len(wsOut) :
           wsOut[j].type = "transcription" =>
               /\ j > 1 /\ wsOut[j - 1] = SpeechStarted
               /\ wsOut[j].text # Undefined
               /\ \A k \in 1..Len(wsOut) :
                      (wsOut[k].type = "transcription" /\ wsOut[k].id = wsOut[j].id)
                          => k = j
    /\ Len(SpeechStartedFrames) = Len(TranscriptionFrames)
           + (IF loopPc = "awaitCompletion"
                    \/ "Error handling input audio" \in ev.errors THEN 1 ELSE 0)
    /\ (loopPc = "awaitCompletion" \/ "Error handling input audio" \in ev.errors) =>
           /\ \A j \in 1..Len(wsOut) :
                  wsOut[j].type = "transcription" => wsOut[j].id # ev.itemId
    /\ loopPc = "awaitCompletion" => wsOut[Len(wsOut)] = SpeechStarted
    /\ TranscriptionFrames # <<>> =>
           LET last == TranscriptionFrames[Len(TranscriptionFrames)]
           IN last.text = IF ev.transcription \in {Undefined, <<>>} THEN <<>>
                          ELSE ev.transcription

C7_Witness ==
    /\ \E j \in 1..Len(wsOut) :
           wsOut[j].type = "transcription" /\ wsOut[j].text = <<>>
    /\ \E j \in 1..Len(wsOut) :
           wsOut[j].type = "transcription" /\ wsOut[j].text = <<"a">>

(* C9: once startEventLoop has failed, nothing more is sent to the client  *)
(* and no further event, item or content is taken from the upstream.       *)
C9_NothingAfterLoopFailure ==
    [][loopPc = "failed" => wsOut' = wsOut /\ ev' = ev]_vars

(***************************************************************************)
(* Closing and audio forwarding.                                           *)
(***************************************************************************)
CloseCalls == SelectSeq(upstream, LAMBDA c : c.op = "close")

(* C11: once the client socket has closed, close() has been called on the  *)
(* upstream client exactly once (and never before); when that close        *)
(* settles, successfully or not, no further upstream call is made and      *)
(* nothing is sent to the socket.                                          *)
C11_CloseCalledOnce ==
    /\ [](Len(CloseCalls) = IF wsState = "closed" THEN 1 ELSE 0)
    /\ [][closePc = "closing" /\ closePc' # "closing"
             => /\ closePc' \in {"closed", "closeFailed"}
                /\ upstream' = upstream
                /\ wsOut' = wsOut]_vars

C11_Witness ==
    /\ closePc = "closeFailed"
    /\ Len(CloseCalls) = 1
    /\ upstream[Len(upstream)] = CloseCall
    /\ wsOut = <<>>

BinaryFrames == {f \in 1..Len(handlers) : handlers[f].kind = "binary"}

(* C12: every binary frame received is forwarded as exactly one sendAudio  *)
(* call carrying the frame's bytes, and as nothing else (no sendItem, no   *)
(* generateResponse); the forwarding raises no error of its own, whether   *)
(* or not a user_message came before.                                      *)
C12_AudioForwarded ==
    \A f \in BinaryFrames :
        /\ Len(CallsOf(f)) = 1
        /\ CallsOf(f)[1].op = "sendAudio"
        /\ CallsOf(f)[1].text = handlers[f].text
        /\ handlers[f].pc \in {"awaitAudio", "done"}
        /\ handlers[f].pc = "awaitAudio" => ~handlers[f].err

C12_Witness ==
    /\ Len(handlers) = 2
    /\ handlers[1].kind = "binary"
    /\ handlers[1].text = <<255, 7>>
    /\ handlers[1].pc = "done"
    /\ ~handlers[1].err
    /\ handlers[2].kind = "user_message"
    /\ upstream[2] = SendAudio(1, <<255, 7>>)

(***************************************************************************)
(* Lookups by name.                                                        *)
(***************************************************************************)
Records == data.sculptures

(* The positions of the records whose name x makes Same(x) true.           *)
Positions(Same(_)) == {i \in 1..Len(Records) : Same(Records[i].name)}

(* C13: a query that, trimmed and lower-cased, equals the lower-cased name *)
(* of a record makes getSculptureByName return a record of that name (up   *)
(* to case), which is that very record when no other record shares the     *)
(* name.                                                                   *)
C13_ExactNameFound ==
    lastCall.op = "get" =>
        LET SameAsQuery(n) == ToLowerCase(n) = Trim(ToLowerCase(lastCall.arg))
            hits == Positions(SameAsQuery)
        IN hits # {} =>
              /\ Len(lastCall.result) = 1
              /\ SameAsQuery(lastCall.result[1].name)
              /\ \A i \in hits : hits = {i} => lastCall.result[1] = Records[i]

C13_Witness ==
    /\ lastCall.op = "get"
    /\ lastCall.arg = <<" ", "b">>
    /\ Records = <<Named(<<"a", ".", "b">>), Named(<<"B">>)>>
    /\ lastCall.result = <<Named(<<"B">>)>>

(* Normalization as the lookup is described: lower-case, keep only word    *)
(* characters and whitespace, collapse whitespace runs, trim.               *)
Normalized(s) ==
    Trim(CollapseSpaces(SelectSeq(ToLowerCase(s),
                                  LAMBDA c : IsWordChar(c) \/ IsSpace(c))))

(* C14: a query whose normalization equals the normalization of a record's *)
(* name makes getSculptureByName return a record whose name normalizes to  *)
(* the same, which is that very record when no other record's name does.   *)
C14_NormalizedNameFound ==
    lastCall.op = "get" =>
        LET SameAsQuery(n) == Normalized(n) = Normalized(lastCall.arg)
            hits == Positions(SameAsQuery)
        IN hits # {} =>
              /\ Len(lastCall.result) = 1
              /\ SameAsQuery(lastCall.result[1].name)
              /\ \A i \in hits : hits = {i} => lastCall.result[1] = Records[i]

C14_Witness ==
    /\ lastCall.op = "get"
    /\ lastCall.arg = <<"A", "b">>
    /\ Records = <<Named(<<"B">>), Named(<<"a", ".", "b">>)>>
    /\ lastCall.result = <<Named(<<"a", ".", "b">>)>>

LowerName(i) == ToLowerCase(Records[i].name)

NoNameInsideAnother ==
    \A i, j \in 1..Len(Records) : i # j => ~Includes(LowerName(j), LowerName(i))

(* The records whose name holds q without being q.                         *)
StrictHolders(q) ==
    {i \in 1..Len(Records) : Includes(LowerName(i), q) /\ q # LowerName(i)}

DescendingNameLengths(list) ==
    \A i \in 1..(Len(list) - 1) : Len(list[i].name) >= Len(list[i + 1].name)

(* What findSculptureByName returned is the records whose name holds q, in *)
(* order of descending name length.                                        *)
SubstringMatchesOf(q) ==
    LET holders == {i \in 1..Len(Records) : Includes(LowerName(i), q)}
    IN /\ DescendingNameLengths(lastCall.result)
       /\ Len(lastCall.result) = Cardinality(holders)
       /\ \A i \in holders :
              \E k \in 1..Len(lastCall.result) : lastCall.result[k] = Records[i]

NoNormalizedMatch ==
    \A i \in 1..Len(Records) :
        Normalized(Records[i].name) # Normalized(lastCall.arg)

(* C19 as stated: in a dataset where no name lies inside another, a query  *)
(* that is a strict substring (case aside) of exactly one record's name    *)
(* makes findSculptureByName return that record first; records matched by  *)
(* substring come in order of descending name length.                      *)
C19_SubstringFirst ==
    lastCall.op = "find" =>
        LET holders == StrictHolders(ToLowerCase(lastCall.arg))
        IN /\ NoNameInsideAnother /\ Cardinality(holders) = 1
                  => /\ lastCall.result # <<>>
                     /\ \A i \in holders : lastCall.result[1] = Records[i]
           /\ NoNormalizedMatch
                  => SubstringMatchesOf(Trim(ToLowerCase(lastCall.arg)))

(* C19, amended: the same for a query that, lower-cased and trimmed, is a  *)
(* strict substring of exactly one record's name and that equals no        *)
(* record's name after normalization.                                      *)
C19_SubstringFirstUnlessNormalized ==
    lastCall.op = "find" =>
        LET q == Trim(ToLowerCase(lastCall.arg))
            holders == StrictHolders(q)
        IN /\ NoNameInsideAnother /\ Cardinality(holders) = 1 /\ NoNormalizedMatch
                  => /\ lastCall.result # <<>>
                     /\ \A i \in holders : lastCall.result[1] = Records[i]
           /\ NoNormalizedMatch => SubstringMatchesOf(q)

C19_Witness ==
    /\ lastCall.op = "find"
    /\ lastCall.arg = <<"b">>
    /\ Records = <<Named(<<"a", ".", "b">>), Named(<<"b", "a", "b">>)>>
    /\ lastCall.result = Records

(***************************************************************************)
(* Multi-field search.                                                     *)
(***************************************************************************)
CriterionNames == {"name", "artist", "location", "year"}

Present(params) == {c \in CriterionNames : Truthy(params[c])}

(* The record's field c holds the lower-cased, trimmed criterion c.        *)
Holds(r, params, c) == Includes(ToLowerCase(r[c]), Trim(ToLowerCase(params[c])))

(* C15 as stated: a search with a criterion present returns exactly the    *)
(* records that, for every criterion present, have the field and hold the  *)
(* criterion in it.                                                        *)
C15_SearchHasEveryField ==
    lastCall.op = "search" /\ Present(lastCall.arg) # {} =>
        LET Satisfies(r) ==
                \A c \in Present(lastCall.arg) :
                    Truthy(r[c]) /\ Holds(r, lastCall.arg, c)
        IN lastCall.result = SelectSeq(Records, Satisfies)

(* C15, amended: a search with a criterion present returns exactly the     *)
(* records whose name holds the name criterion, if present, and that, for  *)
(* every criterion present among artist, location and year, either lack    *)
(* the field or hold the criterion in it.                                  *)
C15_SearchSkipsMissingFields ==
    lastCall.op = "search" /\ Present(lastCall.arg) # {} =>
        LET Satisfies(r) ==
                \A c \in Present(lastCall.arg) :
                    \/ c # "name" /\ ~Truthy(r[c])
                    \/ Holds(r, lastCall.arg, c)
        IN lastCall.result = SelectSeq(Records, Satisfies)

C15_Witness ==
    /\ lastCall.op = "search"
    /\ lastCall.arg = [name |-> <<"a">>, artist |-> <<"B">>,
                       location |-> Undefined, year |-> <<"b">>]
    /\ Records = <<Named(<<"a", "b">>), FullRecord>>
    /\ lastCall.result = <<Named(<<"a", "b">>)>>

(* C18: a record that holds every criterion present on a field it has,    *)
(* whatever optional fields it lacks, is returned by the search.           *)
C18_MissingFieldNeverRejects ==
    lastCall.op = "search" /\ Present(lastCall.arg) # {} =>
        \A i \in 1..Len(Records) :
            (\A c \in Present(lastCall.arg) :
                 Truthy(Records[i][c]) => Holds(Records[i], lastCall.arg, c))
                => \E k \in 1..Len(lastCall.result) : lastCall.result[k] = Records[i]

C18_Witness ==
    /\ lastCall.op = "search"
    /\ lastCall.arg = [name |-> Undefined, artist |-> <<"c">>,
                       location |-> <<"A">>, year |-> Undefined]
    /\ Records = <<Named(<<"B">>), FullRecord>>
    /\ lastCall.result = <<Named(<<"B">>)>>

NameOnly(params) == Present(params) = {"name"}

(* C20 as stated: a search by name alone returns exactly the records whose *)
(* lower-cased name holds the lower-cased criterion.                       *)
C20_NameOnlySearch ==
    lastCall.op = "search" /\ NameOnly(lastCall.arg) =>
        LET HoldsIt(r) == Includes(ToLowerCase(r.name), ToLowerCase(lastCall.arg.name))
        IN lastCall.result = SelectSeq(Records, HoldsIt)

(* C20, amended: a search by name alone returns exactly the records whose  *)
(* lower-cased name holds the lower-cased, trimmed criterion, whatever     *)
(* their other fields are.                                                 *)
C20_NameOnlySearchTrimmed ==
    lastCall.op = "search" /\ NameOnly(lastCall.arg) =>
        LET HoldsIt(r) ==
                Includes(ToLowerCase(r.name), Trim(ToLowerCase(lastCall.arg.name)))
        IN lastCall.result = SelectSeq(Records, HoldsIt)

C20_Witness ==
    /\ lastCall.op = "search"
    /\ lastCall.arg = [name |-> <<" ", "B", " ">>, artist |-> Undefined,
                       location |-> Undefined, year |-> Undefined]
    /\ Len(Records) = 2
    /\ Records[1].name = <<"B">>
    /\ Records[1].artist = <<"a", "b">>
    /\ Records[2] = FullRecord
    /\ lastCall.result = Records

(***************************************************************************)
(* Enrichment of a user message.                                           *)
(***************************************************************************)
SheetFields ==
    <<<<"Year", "year">>, <<"Location", "location">>, <<"Artist", "artist">>,
      <<"Description", "description">>,
      <<"Cast Information", "cast_information">>,
      <<"Original Material", "original_material">>,
      <<"Dimensions", "dimensions">>>>

(* The fact sheet of a record: its Name line, then one labelled line per   *)
(* field it has.                                                           *)
FactSheet(r) ==
    <<<<"Name", r.name>>>>
        \o [k \in 1..Len(SelectSeq(SheetFields, LAMBDA f : Truthy(r[f[2]]))) |->
               LET f == SelectSeq(SheetFields, LAMBDA g : Truthy(r[g[2]]))[k]
               IN <<f[1], r[f[2]]>>]

(* The records whose name the lower-cased user message holds.              *)
Mentioned == {i \in 1..Len(Records) : Includes(ToLowerCase(lastCall.arg), LowerName(i))}

ContextsSent == SelectSeq(lastCall.result, LAMBDA c : c.role = "system")

(* C16: when the user message holds the name of some record, enrichment    *)
(* sends exactly one context item, for a single sculpture, and its fact    *)
(* sheet is that of a record whose name is a longest one held.             *)
C16_LongestNameFactSheet ==
    lastCall.op = "enrich" /\ Mentioned # {} =>
        /\ Len(ContextsSent) = 1
        /\ ContextsSent[1].op = "sendItem"
        /\ ContextsSent[1].tag = "sculpture"
        /\ \E i \in Mentioned :
               /\ \A j \in Mentioned : Len(Records[j].name) <= Len(Records[i].name)
               /\ ContextsSent[1].info = <<FactSheet(Records[i])>>

C16_Witness ==
    /\ lastCall.op = "enrich"
    /\ lastCall.arg = <<"A", "b">>
    /\ Len(Records) = 2
    /\ Records[1].name = <<"B">>
    /\ Records[2] = FullRecord
    /\ Len(ContextsSent) = 1
    /\ ContextsSent[1].info =
           <<<<<<"Name", <<"a", "b">>>>, <<"Year", <<"a">>>>,
               <<"Location", <<"a", ".">>>>, <<"Artist", <<"a", "b">>>>,
               <<"Description", <<"a">>>>, <<"Cast Information", <<"b">>>>,
               <<"Original Material", <<"a">>>>, <<"Dimensions", <<"b">>>>>>>>

(* C17 as stated: when the user message holds no record's name, every      *)
(* record of which the name, the artist, the location or the year holds    *)
(* the lower-cased, whitespace-joined message is among the results the     *)
(* enrichment sends.                                                       *)
C17_FallbackAnyField ==
    lastCall.op = "enrich" /\ Mentioned = {} /\ Truthy(lastCall.arg) =>
        LET joined == CollapseSpaces(ToLowerCase(lastCall.arg))
        IN \A i \in 1..Len(Records) :
               (\E c \in CriterionNames :
                    Truthy(Records[i][c]) /\ Includes(ToLowerCase(Records[i][c]), joined))
                   => /\ Len(ContextsSent) = 1
                      /\ \E k \in 1..Len(ContextsSent[1].info) :
                             ContextsSent[1].info[k] = FactSheet(Records[i])

(***************************************************************************)
(* The store when its load fails, and the HTTP surface.                    *)
(***************************************************************************)
Accessors == {"find", "get", "search", "gallery", "gothic"}

(* C21: a search with none of the four criteria given returns an empty     *)
(* sequence and does not throw, whatever document the store holds or       *)
(* fails to load.                                                          *)
C21_NoCriteriaNoRecords ==
    lastCall.op = "search" /\ Present(lastCall.arg) = {} =>
        lastCall.result = <<>> /\ ~lastCall.threw

C21_Witness ==
    /\ lastCall.op = "search"
    /\ lastCall.arg = [name |-> <<>>, artist |-> Undefined,
                       location |-> Undefined, year |-> Undefined]
    /\ lastCall.loads = 1
    /\ data = GoodDocument
    /\ lastCall.result = <<>>

(* C22: when the store holds no document and the file still cannot be      *)
(* loaded, an accessor does not throw and leaves the document null:        *)
(* findSculptureByName and searchSculptures return an empty sequence,      *)
(* getSculptureByName, getGalleryInfo and getGothicStyleInfo return null.  *)
C22_FailedLoadDegrades ==
    lastCall.op \in Accessors /\ data = NullData =>
        ~lastCall.threw /\ lastCall.result = <<>>

C22_Witness ==
    /\ lastCall.op = "get"
    /\ lastCall.arg = <<"A", "b">>
    /\ lastCall.loads = 1
    /\ data = NullData
    /\ ~lastCall.threw
    /\ lastCall.result = <<>>

(* C23 as stated: no accessor makes a load attempt of its own.             *)
C23_NoLoadByAccessors == lastCall.loads = 0

(* C23, amended: an accessor makes one load attempt of its own when the    *)
(* store holds no document (as after a failed load), and none otherwise.   *)
C23_OneLoadWhenNull ==
    [][lastCall' # lastCall /\ lastCall'.op \in Accessors
          => lastCall'.loads = IF data = NullData THEN 1 ELSE 0]_vars

C23_Witness ==
    /\ lastCall.op = "find"
    /\ lastCall.loads = 1
    /\ data = GoodDocument
    /\ lastCall.arg = <<"A", "b">>
    /\ lastCall.result = <<Sculpture1>>

(* The response a route owes for what the store has: 200 with it when it   *)
(* is there, 404 with the fixed error when it is not.                      *)
Owed(found, error) ==
    IF found # <<>> THEN Respond(200, found[1]) ELSE Respond(404, [error |-> error])

(* C24: the gallery, gothic-style and sculpture-by-name routes answer 200  *)
(* with the store's result when there is one and 404 with their fixed      *)
(* error body when there is none; the list route always answers 200, with  *)
(* the matching records, and with an empty array when no criterion is      *)
(* given or the store has nothing.                                         *)
C24_EndpointStatuses ==
    /\ lastCall.op = "GET /api/general/gallery" =>
           lastCall.result =
               Owed(OrNull(data.general_information.gallery_collection),
                    "Gallery information not found")
    /\ lastCall.op = "GET /api/general/gothic" =>
           lastCall.result =
               Owed(OrNull(data.general_information.gothic_style),
                    "Gothic style information not found")
    /\ lastCall.op = "GET /api/sculptures/:name" =>
           lastCall.result =
               Owed(IF HasArray(data) THEN getSculptureByName(data, lastCall.arg)
                    ELSE <<>>,
                    "Sculpture not found")
    /\ lastCall.op = "GET /api/sculptures" =>
           /\ lastCall.result.status = 200
           /\ Present(lastCall.arg) = {} \/ ~HasArray(data)
                  => lastCall.result.body = <<>>
           /\ Present(lastCall.arg) # {} /\ HasArray(data)
                  => lastCall.result.body = searchSculptures(data, lastCall.arg)

(***************************************************************************)
(* The session's races: dataset load, configuration, socket close.         *)
(***************************************************************************)
MentionsKnownName(text) == potentialNames(GoodDocument, text) # <<>>

UserItemSent(f) ==
    \E i \in 1..Len(CallsOf(f)) :
        CallsOf(f)[i].op = "sendItem" /\ CallsOf(f)[i].role = "user"

(* C25: in a session whose dataset load has succeeded, every user_message  *)
(* naming a known sculpture whose item has gone upstream had a sculpture's *)
(* fact sheet sent upstream first, whenever the frame was handled.         *)
C25_FactSheetInEveryInterleaving ==
    \A f \in UserFrames :
        /\ loadPc = "done" /\ dataService # "null" /\ data = GoodDocument
        /\ MentionsKnownName(handlers[f].text)
        /\ UserItemSent(f)
        => /\ CallsOf(f)[1].op = "sendItem"
           /\ CallsOf(f)[1].role = "system"
           /\ CallsOf(f)[1].tag = "sculpture"

ForwardedFrame(c) ==
    /\ c.frame > 0
    /\ c.op \in {"sendAudio", "generateResponse"}
           \/ (c.op = "sendItem" /\ c.role = "user")

(* C26: every call that forwards a client frame upstream comes after the   *)
(* configuration has completed and the persona message has been sent.      *)
C26_ForwardingOnlyWhenActive ==
    \A k \in 1..Len(upstream) :
        ForwardedFrame(upstream[k])
            => /\ ev.configured = "ok"
               /\ \E j \in 1..(k - 1) : upstream[j] = SeedItem("persona")

(* C27: once the client socket has closed, nothing more is passed to it.   *)
C27_NothingSentAfterClose == [][wsState = "closed" => wsOut' = wsOut]_vars

====
